---------------------------- MODULE Spec2Model ----------------------------
(***************************************************************************)
(* State-machine model of classifier.c: main() parses its arguments, picks *)
(* a distance metric, loads two datasets, then for each of num_procs       *)
(* children creates two pipes, writes (start_idx, N) into the              *)
(* parent-to-child pipe, forks the child, and afterwards reads one int     *)
(* from every child, waits for every child and prints the total.           *)
(*                                                                         *)
(* One action per system call of main() and of the child branch; every     *)
(* system call may fail (the environment decides).  A pipe carries whole   *)
(* ints: every write in the program is one sizeof(int) write, which a pipe *)
(* delivers atomically.                                                    *)
(***************************************************************************)
EXTENDS Integers, Sequences, FiniteSets, TLC

(***************************************************************************)
(* Bounds of the model.                                                    *)
(***************************************************************************)
MaxProcs == 2

MaxItems == 2

MaxArgLen == 2

(***************************************************************************)
(* Strings are sequences of one-character strings.                         *)
(***************************************************************************)
EUCLIDEAN == <<"e", "u", "c", "l", "i", "d", "e", "a", "n">>

COSINE == <<"c", "o", "s", "i", "n", "e">>

NUL == "\\0"

\* The character at 0-based offset j of the C string s (its terminator
\* included).
CharAt(s, j) == IF j < Len(s) THEN s[j + 1] ELSE NUL

Strlen(s) == Len(s)

\* strncmp(s1, s2, n): compare at most n characters, stopping at the first
\* difference or at a terminator; 0 when equal, 1 for any non-zero result.
RECURSIVE StrncmpFrom(_, _, _, _)
StrncmpFrom(s1, s2, n, j) ==
  IF j >= n THEN 0
  ELSE IF CharAt(s1, j) # CharAt(s2, j) THEN 1
  ELSE IF CharAt(s1, j) = NUL THEN 0
  ELSE StrncmpFrom(s1, s2, n, j + 1)

\* A comparison that forgets the length limit (strcmp).
StrncmpNoLimit(s1, s2, n) == StrncmpFrom(s1, s2, Len(s1) + Len(s2) + 1, 0)

\* As strncmp, but the limit is the length of the name, not of the argument.
StrncmpNameLen(s1, s2, n) == StrncmpFrom(s1, s2, Len(s2), 0)

Strncmp(s1, s2, n) == StrncmpFrom(s1, s2, n, 0)

\* The metric main() selects for the argument of -d: "none" is the exit(1)
\* branch.
SelectMetric(d) ==
  IF Strncmp(d, EUCLIDEAN, Strlen(d)) = 0 THEN "euclidean"
  ELSE IF Strncmp(d, COSINE, Strlen(d)) = 0 THEN "cosine"
  ELSE "none"

(***************************************************************************)
(* atoi: an optional sign, then the decimal digits up to the first         *)
(* character that is none; 0 when there is no digit.                       *)
(***************************************************************************)
DigitChars == <<"0", "1", "2", "3", "4", "5", "6", "7", "8", "9">>

IsDigit(c) == \E d \in 1 .. Len(DigitChars) : DigitChars[d] = c

DigitVal(c) == (CHOOSE d \in 1 .. Len(DigitChars) : DigitChars[d] = c) - 1

RECURSIVE AtoiDigits(_, _, _)
AtoiDigits(s, j, acc) ==
  IF j >= Len(s) \/ ~IsDigit(CharAt(s, j)) THEN acc
  ELSE AtoiDigits(s, j + 1, acc * 10 + DigitVal(CharAt(s, j)))

Atoi(s) ==
  IF CharAt(s, 0) = "-" THEN 0 - AtoiDigits(s, 1, 0)
  ELSE IF CharAt(s, 0) = "+" THEN AtoiDigits(s, 1, 0)
  ELSE AtoiDigits(s, 0, 0)

(***************************************************************************)
(* Arithmetic of the partition: ceil and floor of a quotient of two ints   *)
(* converted to double (exact for the sizes an int holds).                 *)
(***************************************************************************)
FloorDiv(a, b) == a \div b

CeilDiv(a, b) == IF a % b = 0 THEN a \div b ELSE (a \div b) + 1

\* Every child gets the ceiling (the bound of the header comment taken as
\* the length).
ChunkAlwaysCeil(idx, items, procs, bnd) == CeilDiv(items, procs)

\* Every child gets the floor (the remainder is forgotten).
ChunkAlwaysFloor(idx, items, procs, bnd) == FloorDiv(items, procs)

\* The test of the remainder is off by one.
ChunkOffByOne(idx, items, procs, bnd) ==
  IF idx <= bnd THEN CeilDiv(items, procs) ELSE FloorDiv(items, procs)

\* N of loop iteration idx.
Chunk(idx, items, procs, bnd) ==
  IF idx < bnd THEN CeilDiv(items, procs) ELSE FloorDiv(items, procs)

(***************************************************************************)
(* Processes, descriptors, standard output.                                *)
(***************************************************************************)
Parent == -1

Children == 0 .. (MaxProcs - 1)

\* A line of standard output: its format and the integer it prints.
Line(kind, val) == <<kind, val>>

\* The arguments of -d the full run is explored with: the default and an
\* unknown name.
RunMetrics == {EUCLIDEAN, <<"m">>}

VARIABLES
  k_arg,         \* argument of -K
  K,             \* atoi of it
  npos,          \* number of arguments after the options (argc - optind)
  verbose,       \* -v given
  num_procs,     \* value of -p
  dist_metric,   \* argument of -d
  tty,           \* stdout is a terminal (line buffered) or not (fully buffered)
  num_items,     \* testing->num_items of the file named on the command line
  correct,       \* correct[t]: test image t is classified as its label
  pc,            \* position of the parent in main()
  metric,        \* the selected distance function
  i,             \* loop counter of the three loops of main()
  start_idx,
  N,
  boundary,
  total_correct,
  exit_code,     \* -1 while the parent runs, else its exit status
  p_to_c,        \* p_to_c[j]: ints in the parent-to-child pipe of child j
  c_to_p,        \* c_to_p[j]: ints in the child-to-parent pipe of child j
  p2c_r, p2c_w,  \* processes holding p_to_c[0] / p_to_c[1] of child j open
  c2p_r, c2p_w,  \* processes holding c_to_p[0] / c_to_p[1] of child j open
  wpc,           \* position of child j
  wstatus,       \* termination status of child j
  wstart, wN,    \* the partition child j read
  cbuf,          \* child j's copy of the parent's unflushed stdout buffer
  reaped,        \* children whose status wait() has returned
  out,           \* lines written to file descriptor 1, by any process
  pbuf,          \* the parent's unflushed stdout buffer
  sent,          \* history: ints the parent wrote to p_to_c[1] of child j
  results,       \* history: ints child j wrote to c_to_p[1]
  got,           \* history: ints the parent read from c_to_p[0] of child j
  loaded,        \* history: what each call of load_dataset returned
  faulted,       \* history: a system call of the parent returned an error
  eof_seen       \* history: a read of the parent returned 0

inputs == <<k_arg, K, npos, verbose, num_procs, dist_metric, tty, num_items,
            correct>>

locals == <<metric, i, start_idx, N, boundary, total_correct>>

pipes == <<p_to_c, c_to_p>>

fds == <<p2c_r, p2c_w, c2p_r, c2p_w>>

kids == <<wpc, wstatus, wstart, wN, cbuf>>

stdio == <<out, pbuf>>

hist == <<sent, results, got, eof_seen>>

vars == <<inputs, pc, locals, exit_code, pipes, fds, kids, reaped, stdio,
          hist, loaded, faulted>>

\* The state after the getopt loop, for one choice of
\* the command line, of the test file, and of what stdout is (without -v the
\* buffering of stdout makes no difference: one line, flushed at exit).
InitWith(metrics, procs, items) ==
  /\ verbose \in BOOLEAN
  /\ num_procs \in procs
  /\ dist_metric \in metrics
  /\ tty \in (IF verbose THEN BOOLEAN ELSE {FALSE})
  /\ num_items \in items
  /\ correct \in [0 .. (num_items - 1) -> BOOLEAN]
  /\ pc = "args"
  /\ metric = "unset"
  /\ i = 0
  /\ start_idx = 0
  /\ N = 0
  /\ boundary = 0
  /\ total_correct = 0
  /\ exit_code = -1
  /\ p_to_c = [j \in Children |-> <<>>]
  /\ c_to_p = [j \in Children |-> <<>>]
  /\ p2c_r = [j \in Children |-> {}]
  /\ p2c_w = [j \in Children |-> {}]
  /\ c2p_r = [j \in Children |-> {}]
  /\ c2p_w = [j \in Children |-> {}]
  /\ wpc = [j \in Children |-> "none"]
  /\ wstatus = [j \in Children |-> "none"]
  /\ wstart = [j \in Children |-> 0]
  /\ wN = [j \in Children |-> 0]
  /\ cbuf = [j \in Children |-> <<>>]
  /\ reaped = {}
  /\ out = <<>>
  /\ pbuf = <<>>
  /\ sent = [j \in Children |-> <<>>]
  /\ results = [j \in Children |-> <<>>]
  /\ got = [j \in Children |-> <<>>]
  /\ faulted = FALSE
  /\ eof_seen = FALSE

\* The part of that state the -K option and the positional arguments
\* decide: K = atoi(optarg), and no dataset loaded yet.
InitArgv(kargs, positional) ==
  /\ k_arg \in kargs
  /\ K = Atoi(k_arg)
  /\ npos \in positional
  /\ loaded = <<>>

\* -K 1 (the default value) and both dataset files.
Init ==
  /\ InitWith(RunMetrics, 1 .. MaxProcs, 0 .. MaxItems)
  /\ InitArgv({<<"1">>}, {2})

(***************************************************************************)
(* stdio and exit of the parent.                                           *)
(***************************************************************************)
\* printf of the lines ls: written at once on a terminal, else buffered.
Printf(ls) ==
  /\ out' = IF tty THEN out \o ls ELSE out
  /\ pbuf' = IF tty THEN pbuf ELSE pbuf \o ls

Release(held, p) == [j \in Children |-> held[j] \ {p}]

\* exit(code) or return code from main: stdout is flushed, every
\* descriptor of the process is closed.
ParentExit(code) ==
  /\ pc' = "exited"
  /\ exit_code' = code
  /\ out' = out \o pbuf
  /\ pbuf' = <<>>
  /\ p2c_r' = Release(p2c_r, Parent)
  /\ p2c_w' = Release(p2c_w, Parent)
  /\ c2p_r' = Release(c2p_r, Parent)
  /\ c2p_w' = Release(c2p_w, Parent)

\* The parent is killed by a signal (the status a shell reports for
\* SIGSEGV): nothing is flushed, every descriptor is closed.
ParentCrash ==
  /\ pc' = "exited"
  /\ exit_code' = 139
  /\ pbuf' = <<>>
  /\ p2c_r' = Release(p2c_r, Parent)
  /\ p2c_w' = Release(p2c_w, Parent)
  /\ c2p_r' = Release(c2p_r, Parent)
  /\ c2p_w' = Release(c2p_w, Parent)
  /\ UNCHANGED out

\* A failed system call ends the parent with status 0.
ParentFaultExitZero ==
  /\ faulted' = TRUE
  /\ ParentExit(0)
  /\ UNCHANGED <<loaded, inputs, locals, pipes, kids, reaped, hist>>

\* The branch every failed system call of the parent takes: perror, exit(1).
ParentFault ==
  /\ faulted' = TRUE
  /\ ParentExit(1)
  /\ UNCHANGED <<loaded, inputs, locals, pipes, kids, reaped, hist>>

(***************************************************************************)
(* main(): the positional arguments, metric selection, dataset loading.    *)
(***************************************************************************)
\* if (optind >= argc) exit(1); training_file and testing_file are the next
\* two entries of argv (with one positional argument the second is
\* argv[argc], the null pointer).
CheckArgs ==
  /\ pc = "args"
  /\ IF npos = 0
       THEN ParentExit(1)
       ELSE /\ pc' = "select"
            /\ UNCHANGED <<exit_code, fds, stdio>>
  /\ UNCHANGED <<loaded, inputs, locals, pipes, kids, reaped, hist, faulted>>

ChooseMetric ==
  /\ pc = "select"
  /\ metric' = SelectMetric(dist_metric)
  /\ IF metric' = "none"
       THEN ParentExit(1)
       ELSE /\ pc' = "load_training"
            /\ UNCHANGED <<exit_code, fds, stdio>>
  /\ UNCHANGED <<loaded, inputs, i, start_idx, N, boundary, total_correct, pipes,
                 kids, reaped, hist, faulted>>

\* What load_dataset can do: for a file name, return a dataset or NULL;
\* for the null pointer, return NULL or crash.
LoadOutcomes(named) == IF named THEN {"ok", "null"} ELSE {"null", "crash"}

\* The NULL test is missing.
LoadFailedNever(r) == FALSE

\* training == NULL, testing == NULL.
LoadFailed(r) == r = "null"

\* load_dataset(training_file) and its NULL test.
LoadTraining ==
  /\ pc = "load_training"
  /\ \E r \in LoadOutcomes(npos >= 1) :
       /\ loaded' = Append(loaded, r)
       /\ IF LoadFailed(r)
            THEN ParentExit(1)
            ELSE /\ pc' = "load_testing"
                 /\ UNCHANGED <<exit_code, fds, stdio>>
  /\ UNCHANGED <<inputs, locals, pipes, kids, reaped, hist, faulted>>

\* What the declaration of from_children[num_procs * 2] and
\* num_items % num_procs can do: they are undefined for num_procs <= 0 (an
\* array of no or negative size, a division by zero), where the program
\* goes on or is killed.
PlanOutcomes(procs) == IF procs >= 1 THEN {"ok"} ELSE {"ok", "crash"}

\* load_dataset(testing_file) and its NULL test, then the verbose line
\* before the loop and the initialisation of start_idx and boundary; with
\* num_procs <= 0 none of the three loops has an iteration, and the next
\* statement is the printf after the wait loop.
LoadTesting ==
  /\ pc = "load_testing"
  /\ \E r \in LoadOutcomes(npos >= 2), u \in PlanOutcomes(num_procs) :
       /\ loaded' = Append(loaded, r)
       /\ IF r = "crash"
            THEN /\ ParentCrash
                 /\ UNCHANGED <<start_idx, boundary, i>>
            ELSE IF LoadFailed(r)
            THEN /\ ParentExit(1)
                 /\ UNCHANGED <<start_idx, boundary, i>>
            ELSE IF u = "crash"
            THEN /\ ParentCrash
                 /\ UNCHANGED <<start_idx, boundary, i>>
            ELSE IF num_procs >= 1
            THEN /\ pc' = "pipe_c2p"
                 /\ Printf(IF verbose THEN <<Line("creating", 0)>> ELSE <<>>)
                 /\ start_idx' = 0
                 /\ boundary' = num_items % num_procs
                 /\ i' = 0
                 /\ UNCHANGED <<exit_code, fds>>
            ELSE /\ pc' = "report"
                 /\ Printf(IF verbose
                             THEN <<Line("creating", 0), Line("waiting", 0)>>
                             ELSE <<>>)
                 /\ start_idx' = 0
                 /\ boundary' = 0
                 /\ i' = 0
                 /\ UNCHANGED <<exit_code, fds>>
  /\ UNCHANGED <<inputs, metric, N, total_correct, pipes, kids, reaped, hist,
                 faulted>>

(***************************************************************************)
(* main(): the loop that creates the pipes and the children.               *)
(***************************************************************************)
\* Loop head (N of this iteration) and pipe(c_to_p).
PipeFromChild ==
  /\ pc = "pipe_c2p"
  /\ N' = Chunk(i, num_items, num_procs, boundary)
  /\ \/ /\ pc' = "pipe_p2c"
        /\ c2p_r' = [c2p_r EXCEPT ![i] = {Parent}]
        /\ c2p_w' = [c2p_w EXCEPT ![i] = {Parent}]
        /\ UNCHANGED <<exit_code, p2c_r, p2c_w, stdio, faulted>>
     \/ /\ faulted' = TRUE
        /\ ParentExit(1)
  /\ UNCHANGED <<loaded, inputs, metric, i, start_idx, boundary, total_correct,
                 pipes, kids, reaped, hist>>

\* pipe(p_to_c).
PipeToChild ==
  /\ pc = "pipe_p2c"
  /\ \/ /\ pc' = "write_start"
        /\ p2c_r' = [p2c_r EXCEPT ![i] = {Parent}]
        /\ p2c_w' = [p2c_w EXCEPT ![i] = {Parent}]
        /\ UNCHANGED <<exit_code, c2p_r, c2p_w, stdio, faulted, locals,
                       pipes, kids, reaped, hist, inputs, loaded>>
     \/ ParentFault

\* write(p_to_c[1], &start_idx, sizeof(int)).
WriteStart ==
  /\ pc = "write_start"
  /\ \/ /\ pc' = "write_N"
        /\ p_to_c' = [p_to_c EXCEPT ![i] = Append(@, start_idx)]
        /\ sent' = [sent EXCEPT ![i] = Append(@, start_idx)]
        /\ UNCHANGED <<exit_code, fds, stdio, faulted, locals, c_to_p, kids,
                       reaped, results, got, eof_seen, inputs, loaded>>
     \/ ParentFault

\* write(p_to_c[1], &N, sizeof(int)).
WriteN ==
  /\ pc = "write_N"
  /\ \/ /\ pc' = "close_p2c_w"
        /\ p_to_c' = [p_to_c EXCEPT ![i] = Append(@, N)]
        /\ sent' = [sent EXCEPT ![i] = Append(@, N)]
        /\ UNCHANGED <<exit_code, fds, stdio, faulted, locals, c_to_p, kids,
                       reaped, results, got, eof_seen, inputs, loaded>>
     \/ ParentFault

\* The close of the write end is forgotten.
CloseWriteToChildForgotten ==
  /\ pc = "close_p2c_w"
  /\ pc' = "fork"
  /\ UNCHANGED <<exit_code, fds, stdio, faulted, locals, pipes, kids, reaped,
                 hist, inputs, loaded>>

\* close(p_to_c[1]).
CloseWriteToChild ==
  /\ pc = "close_p2c_w"
  /\ \/ /\ pc' = "fork"
        /\ p2c_w' = [p2c_w EXCEPT ![i] = @ \ {Parent}]
        /\ UNCHANGED <<exit_code, p2c_r, c2p_r, c2p_w, stdio, faulted,
                       locals, pipes, kids, reaped, hist, inputs, loaded>>
     \/ ParentFault

\* The descriptors child c has after fork(): every one the parent holds.
Inherit(held, c) ==
  [j \in Children |-> IF Parent \in held[j] THEN held[j] \cup {c} ELSE held[j]]

\* fork(): the child starts at its close(c_to_p[0]) with a copy of the
\* parent's descriptors and of its stdout buffer.
Fork ==
  /\ pc = "fork"
  /\ \/ /\ pc' = "close_p2c_r"
        /\ wpc' = [wpc EXCEPT ![i] = "close_c2p_r"]
        /\ cbuf' = [cbuf EXCEPT ![i] = pbuf]
        /\ p2c_r' = Inherit(p2c_r, i)
        /\ p2c_w' = Inherit(p2c_w, i)
        /\ c2p_r' = Inherit(c2p_r, i)
        /\ c2p_w' = Inherit(c2p_w, i)
        /\ UNCHANGED <<exit_code, stdio, faulted, locals, pipes, wstatus,
                       wstart, wN, reaped, hist, inputs, loaded>>
     \/ ParentFault

\* close(p_to_c[0]) in the parent.
CloseReadToChild ==
  /\ pc = "close_p2c_r"
  /\ \/ /\ pc' = "close_c2p_w"
        /\ p2c_r' = [p2c_r EXCEPT ![i] = @ \ {Parent}]
        /\ UNCHANGED <<exit_code, p2c_w, c2p_r, c2p_w, stdio, faulted,
                       locals, pipes, kids, reaped, hist, inputs, loaded>>
     \/ ParentFault

\* The loop stops after the first child.
DispatchOnlyOne(idx, procs) == FALSE

\* i++ and the test i < num_procs of the loop that creates the children.
DispatchMore(idx, procs) == idx + 1 < procs

\* close(c_to_p[1]) in the parent, start_idx += N, i++ and the loop test;
\* after the last iteration the read loop starts at i = 0.
CloseWriteFromChild ==
  /\ pc = "close_c2p_w"
  /\ \/ /\ c2p_w' = [c2p_w EXCEPT ![i] = @ \ {Parent}]
        /\ start_idx' = start_idx + N
        /\ IF DispatchMore(i, num_procs)
             THEN /\ i' = i + 1
                  /\ pc' = "pipe_c2p"
             ELSE /\ i' = 0
                  /\ pc' = "read"
        /\ UNCHANGED <<exit_code, p2c_r, p2c_w, c2p_r, stdio, faulted,
                       metric, N, boundary, total_correct, pipes, kids,
                       reaped, hist, inputs, loaded>>
     \/ ParentFault

(***************************************************************************)
(* main(): reading the results, waiting, printing.                         *)
(***************************************************************************)
\* The sum forgets what was read before.
AccumulateOverwrite(total, count) == count

\* total_correct += count.
Accumulate(total, count) == total + count

\* What main() does after read() returned 0: neither branch of the if is
\* taken and the while loop reads again.
AfterEof ==
  /\ UNCHANGED <<pc, exit_code, fds, stdio, faulted, locals, pipes, kids,
                 reaped, sent, results, got, inputs, loaded>>

\* One read(fd, &count, sizeof(int)) of the while loop: an int of child i,
\* 0 at end of file (no int in the pipe and no open write end), or -1; it
\* blocks while the pipe is empty and a write end is open.
ReadResult ==
  /\ pc = "read"
  /\ \/ /\ c_to_p[i] # <<>>
        /\ total_correct' = Accumulate(total_correct, Head(c_to_p[i]))
        /\ c_to_p' = [c_to_p EXCEPT ![i] = Tail(@)]
        /\ got' = [got EXCEPT ![i] = Append(@, Head(c_to_p[i]))]
        /\ pc' = "close_fd"
        /\ UNCHANGED <<exit_code, fds, stdio, faulted, metric, i, start_idx,
                       N, boundary, p_to_c, kids, reaped, sent, results,
                       eof_seen, inputs, loaded>>
     \/ /\ c_to_p[i] = <<>>
        /\ c2p_w[i] = {}
        /\ eof_seen' = TRUE
        /\ AfterEof
     \/ ParentFault

\* close(fd) and the loop test of the read loop; after the last child the
\* verbose line and the wait loop, at i = 0.
CloseResult ==
  /\ pc = "close_fd"
  /\ \/ /\ c2p_r' = [c2p_r EXCEPT ![i] = @ \ {Parent}]
        /\ IF i + 1 < num_procs
             THEN /\ i' = i + 1
                  /\ pc' = "read"
                  /\ UNCHANGED stdio
             ELSE /\ i' = 0
                  /\ pc' = "wait"
                  /\ Printf(IF verbose THEN <<Line("waiting", 0)>> ELSE <<>>)
        /\ UNCHANGED <<exit_code, p2c_r, p2c_w, c2p_w, faulted, metric,
                       start_idx, N, boundary, total_correct, pipes, kids,
                       reaped, hist, inputs, loaded>>
     \/ ParentFault

\* The test is inverted: status 0 is taken for the failure.
StatusIsFatalOnZero(st) == st = "exit0"

\* The test main() applies to a wait status: fatal when the child exited
\* with status 1.
StatusIsFatal(st) == st = "exit1"

\* The wait loop stops after its first wait.
WaitOnlyOnce(idx, procs) == FALSE

\* i++ and the test i < num_procs of the wait loop.
WaitMore(idx, procs) == idx + 1 < procs

\* One wait(&status) of the wait loop: the status of a terminated child not
\* yet waited for (it blocks while there is none), or -1.
Wait ==
  /\ pc = "wait"
  /\ \/ \E j \in Children :
          /\ wpc[j] = "dead"
          /\ j \notin reaped
          /\ reaped' = reaped \cup {j}
          /\ IF StatusIsFatal(wstatus[j])
               THEN /\ ParentExit(1)
                    /\ UNCHANGED i
               ELSE /\ IF WaitMore(i, num_procs)
                         THEN /\ i' = i + 1
                              /\ pc' = "wait"
                         ELSE /\ i' = i + 1
                              /\ pc' = "report"
                    /\ UNCHANGED <<exit_code, fds, stdio>>
          /\ UNCHANGED faulted
     \/ /\ faulted' = TRUE
        /\ ParentExit(1)
        /\ UNCHANGED <<i, reaped>>
  /\ UNCHANGED <<loaded, inputs, metric, start_idx, N, boundary, total_correct,
                 pipes, kids, hist>>

\* The lines main() prints after the wait loop.
ReportLines ==
  (IF verbose THEN <<Line("number_correct", total_correct)>> ELSE <<>>)
    \o <<Line("total", total_correct)>>

\* The two printf after the wait loop, free_dataset and return 0.
Report ==
  /\ pc = "report"
  /\ pc' = "exited"
  /\ exit_code' = 0
  /\ out' = out \o pbuf \o ReportLines
  /\ pbuf' = <<>>
  /\ p2c_r' = Release(p2c_r, Parent)
  /\ p2c_w' = Release(p2c_w, Parent)
  /\ c2p_r' = Release(c2p_r, Parent)
  /\ c2p_w' = Release(c2p_w, Parent)
  /\ UNCHANGED <<loaded, inputs, locals, pipes, kids, reaped, hist, faulted>>

(***************************************************************************)
(* The child: the k == 0 branch of main() and child_handler().             *)
(***************************************************************************)
\* exit(status) of child j: its copy of the stdout buffer is flushed and
\* its descriptors are closed.
ChildExit(j, st) ==
  /\ wpc' = [wpc EXCEPT ![j] = "dead"]
  /\ wstatus' = [wstatus EXCEPT ![j] = st]
  /\ out' = out \o cbuf[j]
  /\ cbuf' = [cbuf EXCEPT ![j] = <<>>]
  /\ p2c_r' = Release(p2c_r, j)
  /\ p2c_w' = Release(p2c_w, j)
  /\ c2p_r' = Release(c2p_r, j)
  /\ c2p_w' = Release(c2p_w, j)

\* Child j is ended by a signal: nothing is flushed.
ChildSignalled(j) ==
  /\ wpc' = [wpc EXCEPT ![j] = "dead"]
  /\ wstatus' = [wstatus EXCEPT ![j] = "signal"]
  /\ cbuf' = [cbuf EXCEPT ![j] = <<>>]
  /\ p2c_r' = Release(p2c_r, j)
  /\ p2c_w' = Release(p2c_w, j)
  /\ c2p_r' = Release(c2p_r, j)
  /\ c2p_w' = Release(c2p_w, j)
  /\ UNCHANGED out

\* close(c_to_p[0]) in the child.
ChildCloseRead(j) ==
  /\ wpc[j] = "close_c2p_r"
  /\ \/ /\ wpc' = [wpc EXCEPT ![j] = "read_part"]
        /\ c2p_r' = [c2p_r EXCEPT ![j] = @ \ {j}]
        /\ UNCHANGED <<wstatus, cbuf, out, p2c_r, p2c_w, c2p_w>>
     \/ ChildExit(j, "exit1")
  /\ UNCHANGED <<loaded, inputs, pc, locals, exit_code, pipes, wstart, wN, reaped,
                 pbuf, hist, faulted>>

\* child_handler(): read start_idx and N from p_in.
ChildReadPartition(j) ==
  /\ wpc[j] = "read_part"
  /\ \/ /\ Len(p_to_c[j]) >= 2
        /\ wstart' = [wstart EXCEPT ![j] = p_to_c[j][1]]
        /\ wN' = [wN EXCEPT ![j] = p_to_c[j][2]]
        /\ p_to_c' = [p_to_c EXCEPT ![j] = Tail(Tail(@))]
        /\ wpc' = [wpc EXCEPT ![j] = "send_result"]
        /\ UNCHANGED <<wstatus, cbuf, out, fds>>
     \/ /\ ChildExit(j, "exit1")
        /\ UNCHANGED <<wstart, wN, p_to_c>>
  /\ UNCHANGED <<loaded, inputs, pc, locals, exit_code, c_to_p, reaped, pbuf, hist,
                 faulted>>

\* The number of test images of [first, first + len) classified as their
\* label.
CorrectIn(first, len) ==
  Cardinality({t \in first .. (first + len - 1) : correct[t]})

\* child_handler(): classify the images of the partition and write the
\* count to p_out; a write to a pipe nobody can read raises SIGPIPE.
ChildSendResult(j) ==
  /\ wpc[j] = "send_result"
  /\ \/ /\ c2p_r[j] # {}
        /\ c_to_p' = [c_to_p EXCEPT ![j] = Append(@, CorrectIn(wstart[j], wN[j]))]
        /\ results' = [results EXCEPT ![j] = Append(@, CorrectIn(wstart[j], wN[j]))]
        /\ wpc' = [wpc EXCEPT ![j] = "close_p2c_r"]
        /\ UNCHANGED <<wstatus, cbuf, out, fds>>
     \/ /\ c2p_r[j] = {}
        /\ ChildSignalled(j)
        /\ UNCHANGED <<c_to_p, results>>
     \/ /\ ChildExit(j, "exit1")
        /\ UNCHANGED <<c_to_p, results>>
  /\ UNCHANGED <<loaded, inputs, pc, locals, exit_code, p_to_c, wstart, wN, reaped,
                 pbuf, sent, got, eof_seen, faulted>>

\* close(p_to_c[0]) in the child.
ChildCloseIn(j) ==
  /\ wpc[j] = "close_p2c_r"
  /\ \/ /\ wpc' = [wpc EXCEPT ![j] = "close_c2p_w"]
        /\ p2c_r' = [p2c_r EXCEPT ![j] = @ \ {j}]
        /\ UNCHANGED <<wstatus, cbuf, out, p2c_w, c2p_r, c2p_w>>
     \/ ChildExit(j, "exit1")
  /\ UNCHANGED <<loaded, inputs, pc, locals, exit_code, pipes, wstart, wN, reaped,
                 pbuf, hist, faulted>>

\* close(c_to_p[1]) in the child.
ChildCloseOut(j) ==
  /\ wpc[j] = "close_c2p_w"
  /\ \/ /\ wpc' = [wpc EXCEPT ![j] = "exit"]
        /\ c2p_w' = [c2p_w EXCEPT ![j] = @ \ {j}]
        /\ UNCHANGED <<wstatus, cbuf, out, p2c_r, p2c_w, c2p_r>>
     \/ ChildExit(j, "exit1")
  /\ UNCHANGED <<loaded, inputs, pc, locals, exit_code, pipes, wstart, wN, reaped,
                 pbuf, hist, faulted>>

\* free_dataset twice and exit(0).
ChildFinish(j) ==
  /\ wpc[j] = "exit"
  /\ ChildExit(j, "exit0")
  /\ UNCHANGED <<loaded, inputs, pc, locals, exit_code, pipes, wstart, wN, reaped,
                 pbuf, hist, faulted>>

\* A running child is killed by a signal.
ChildKilled(j) ==
  /\ wpc[j] \notin {"none", "dead"}
  /\ ChildSignalled(j)
  /\ UNCHANGED <<loaded, inputs, pc, locals, exit_code, pipes, wstart, wN, reaped,
                 pbuf, hist, faulted>>

Next ==
  \/ CheckArgs
  \/ ChooseMetric
  \/ LoadTraining
  \/ LoadTesting
  \/ PipeFromChild
  \/ PipeToChild
  \/ WriteStart
  \/ WriteN
  \/ CloseWriteToChild
  \/ Fork
  \/ CloseReadToChild
  \/ CloseWriteFromChild
  \/ ReadResult
  \/ CloseResult
  \/ Wait
  \/ Report
  \/ \E j \in Children : ChildCloseRead(j)
  \/ \E j \in Children : ChildReadPartition(j)
  \/ \E j \in Children : ChildSendResult(j)
  \/ \E j \in Children : ChildCloseIn(j)
  \/ \E j \in Children : ChildCloseOut(j)
  \/ \E j \in Children : ChildFinish(j)
  \/ \E j \in Children : ChildKilled(j)

Spec == Init /\ [][Next]_vars

(***************************************************************************)
(* Metric selection explored on its own: one child, at most one test       *)
(* image, and every argument of -d of MetricArgs.                          *)
(***************************************************************************)
Sigma == {"e", "u", "c", "o", "E", "C", "x"}

RECURSIVE StringsUpTo(_)
StringsUpTo(n) ==
  IF n = 0 THEN {<<>>}
  ELSE LET shorter == StringsUpTo(n - 1)
       IN  shorter \cup {Append(s, c) : s \in shorter, c \in Sigma}

\* The letters of the two names, with their capitals.
Capitals ==
  {<<"e", "E">>, <<"u", "U">>, <<"c", "C">>, <<"l", "L">>, <<"i", "I">>,
   <<"d", "D">>, <<"a", "A">>, <<"n", "N">>, <<"o", "O">>, <<"s", "S">>}

ToUpperChar(c) ==
  IF \E p \in Capitals : p[1] = c
    THEN (CHOOSE p \in Capitals : p[1] = c)[2] ELSE c

ToLowerChar(c) ==
  IF \E p \in Capitals : p[2] = c
    THEN (CHOOSE p \in Capitals : p[2] = c)[1] ELSE c

ToUpper(s) == [k \in 1 .. Len(s) |-> ToUpperChar(s[k])]

ToLower(s) == [k \in 1 .. Len(s) |-> ToLowerChar(s[k])]

Capitalized(s) == [k \in 1 .. Len(s) |-> IF k = 1 THEN ToUpperChar(s[k]) ELSE s[k]]

NamePrefixes ==
  {SubSeq(EUCLIDEAN, 1, k) : k \in 0 .. Len(EUCLIDEAN)}
    \cup {SubSeq(COSINE, 1, k) : k \in 0 .. Len(COSINE)}

MetricArgs ==
  StringsUpTo(MaxArgLen) \cup NamePrefixes
    \cup {ToUpper(s) : s \in NamePrefixes}
    \cup {Capitalized(s) : s \in NamePrefixes}
    \cup {Append(s, "x") : s \in NamePrefixes}
    \cup {<<"m", "a", "n", "h", "a", "t", "t", "a", "n">>}

InitMetric == InitWith(MetricArgs, {1}, 0 .. 1) /\ InitArgv({<<"1">>}, {2})

SpecMetric == InitMetric /\ [][Next]_vars

(***************************************************************************)
(* The handling of the arguments explored on its own: arguments of -K      *)
(* that are no positive number, missing dataset files, a num_procs that is *)
(* not positive; at most one child and one test image.                     *)
(***************************************************************************)
KArgs ==
  {<<"1">>, <<"3">>, <<"0">>, <<"-", "2">>, <<"a", "b", "c">>, <<"2", "x">>,
   <<"1", "0">>}

InitArgs == InitWith({EUCLIDEAN}, -1 .. 1, 0 .. 1) /\ InitArgv(KArgs, 0 .. 2)

SpecArgs == InitArgs /\ [][Next]_vars

(***************************************************************************)
(* The run under fair scheduling: a process that can take a step           *)
(* eventually takes one.                                                   *)
(***************************************************************************)
InitLive == InitWith({EUCLIDEAN}, 1 .. MaxProcs, 0 .. 1) /\ InitArgv({<<"1">>}, {2})

\* No system call of the parent has failed, both datasets were loaded, the
\* metric is known, and no child has ended with a non-zero status or by a
\* signal.
Clean ==
  /\ ~faulted
  /\ \A k \in 1 .. Len(loaded) : loaded[k] = "ok"
  /\ metric # "none"
  /\ \A j \in Children : wstatus[j] \in {"none", "exit0"}

\* Fairness is on the steps in which nothing fails: a system call that can
\* return without an error eventually does.
SpecLive == InitLive /\ [][Next]_vars /\ WF_vars(Next /\ Clean')

(***************************************************************************)
(* Properties.                                                             *)
(***************************************************************************)
Procs == 0 .. (num_procs - 1)

\* The parent has written both ints of child j's partition.
Dispatched(j) == Len(sent[j]) = 2

StartOf(j) == sent[j][1]

LenOf(j) == sent[j][2]

AllDispatched == \A j \in Procs : Dispatched(j)

RECURSIVE SumLen(_)
SumLen(n) == IF n = 0 THEN 0 ELSE LenOf(n - 1) + SumLen(n - 1)

RECURSIVE SumResults(_)
SumResults(n) == IF n = 0 THEN 0 ELSE results[n - 1][1] + SumResults(n - 1)

\* The metric selection of main() has run.
MetricChosen == metric # "unset"

IsPrefix(s, t) == Len(s) <= Len(t) /\ SubSeq(t, 1, Len(s)) = s

\* Some line of ls prints a count of correct predictions.
HasTotal(ls) ==
  \E k \in 1 .. Len(ls) : ls[k][1] \in {"total", "number_correct"}

\* A count of correct predictions has been printed by the parent, written
\* or still buffered, or sits in a child's copy of the buffer.
TotalEmitted ==
  HasTotal(out) \/ HasTotal(pbuf) \/ \E j \in Children : HasTotal(cbuf[j])

\* C1: the (start_idx, N) pairs written to the children, in creation order,
\* tile [0, num_items): child 0 starts at 0, each later child starts where
\* the previous one ends, no length is negative, and once every pair is
\* written the lengths sum to num_items and every test index lies in the
\* range of exactly one child.
C1_PartitionsTile ==
  /\ \A j \in Procs :
       Dispatched(j) =>
         /\ LenOf(j) >= 0
         /\ j > 0 => Dispatched(j - 1)
         /\ StartOf(j) = IF j = 0 THEN 0 ELSE StartOf(j - 1) + LenOf(j - 1)
  /\ AllDispatched =>
       /\ SumLen(num_procs) = num_items
       /\ \A t \in 0 .. (num_items - 1) :
            Cardinality({j \in Procs :
                           StartOf(j) <= t /\ t < StartOf(j) + LenOf(j)}) = 1

\* Every pair is written, there are more children than test images, and
\* a child has an empty range while another has an image.
C1_Witness ==
  /\ AllDispatched
  /\ num_procs > num_items
  /\ \E j \in Procs : LenOf(j) = 0
  /\ \E j \in Procs : LenOf(j) = 1

\* C2: when main() returns 0, every child wrote exactly one int, the parent
\* read exactly that int from it, and the total printed is the sum of
\* these ints.
C2_TotalIsSumOfResults ==
  exit_code = 0 =>
    /\ \A j \in Procs : Len(results[j]) = 1 /\ got[j] = results[j]
    /\ total_correct = SumResults(num_procs)
    /\ out # <<>>
    /\ out[Len(out)] = Line("total", SumResults(num_procs))

\* A successful run of two children that both report a non-zero count.
C2_Witness ==
  /\ exit_code = 0
  /\ num_procs = 2
  /\ results[0] = <<1>>
  /\ results[1] = <<1>>

\* C3: the total a successful run prints is the number of correctly
\* classified images of the whole test set, whatever num_procs is and
\* however the children interleave; this is the count the single child of
\* a num_procs = 1 run reports for its range [0, num_items).
C3_TotalIndependentOfProcs ==
  exit_code = 0 =>
    /\ out # <<>>
    /\ out[Len(out)] = Line("total", CorrectIn(0, num_items))

\* A successful run of more than one child, each with a correctly
\* classified image in its range.
C3_Witness ==
  /\ exit_code = 0
  /\ num_procs > 1
  /\ \A j \in Procs : results[j] = <<1>>

\* C4: a count of correct predictions is printed only when the parent has
\* read a result from every child and wait() has returned the status of
\* every child.
C4_TotalOnlyAfterAll ==
  TotalEmitted => \A j \in Procs : Len(got[j]) = 1 /\ j \in reaped

\* The total is on stdout in a run of two children.
C4_Witness == HasTotal(out) /\ num_procs = 2 /\ reaped = {0, 1}

\* C5: once some child has ended with a non-zero exit status or by a
\* signal, a parent that has exited has exited with a non-zero status and
\* printed no total.
C5_AbnormalChildIsFatal ==
  (pc = "exited" /\ \E j \in Procs : wstatus[j] \in {"exit1", "signal"}) =>
    (exit_code = 1 /\ ~TotalEmitted)

\* C6: the step in which a read of the parent returns 0 (end of file, no
\* result received) ends the parent with exit status 1.
C6_EofIsFatal ==
  [][(~eof_seen /\ eof_seen') => (pc' = "exited" /\ exit_code' = 1)]_vars

\* C7: once pipe, write, close, fork or read has failed in the parent, the
\* parent has exited with status 1 and no total is or will be printed.
C7_ChannelFaultIsFatal ==
  faulted => (pc = "exited" /\ exit_code = 1 /\ ~TotalEmitted)

\* A system call failed after both children were created and a non-zero
\* result had been added to the sum.
C7_Witness ==
  /\ faulted
  /\ num_procs = 2
  /\ wpc[1] # "none"
  /\ got[0] = <<1>>
  /\ total_correct = 1

\* C8: on success (main returns 0, every child exited with status 0), what
\* the parent and all children wrote to stdout is exactly one line, the
\* total, with -v or without.
C8_OneLineOnStdout ==
  (exit_code = 0 /\ \A j \in Procs : wstatus[j] = "exit0") =>
    out = <<Line("total", total_correct)>>

\* C9 (as the code has it): selection compares case: a non-empty initial
\* substring of "euclidean" selects the Euclidean metric, a non-empty
\* initial substring of "cosine" selects the cosine metric, and a string
\* that only becomes such a substring when its capitals are lowered selects
\* nothing: the parent exits with status 1.
C9_CaseSensitivePrefixSelects ==
  MetricChosen =>
    /\ (dist_metric # <<>> /\ IsPrefix(dist_metric, EUCLIDEAN)) =>
         metric = "euclidean"
    /\ (dist_metric # <<>> /\ IsPrefix(dist_metric, COSINE)) =>
         metric = "cosine"
    /\ ( /\ dist_metric # ToLower(dist_metric)
         /\ \/ IsPrefix(ToLower(dist_metric), EUCLIDEAN)
            \/ IsPrefix(ToLower(dist_metric), COSINE) ) =>
         (metric = "none" /\ pc = "exited" /\ exit_code = 1)

\* "cos" has selected the cosine metric and the run goes on.
C9_Witness ==
  /\ dist_metric = <<"c", "o", "s">>
  /\ metric = "cosine"
  /\ pc = "load_training"

\* C9 (as stated): selection ignores case: every non-empty string that,
\* with its capitals lowered, is an initial substring of "euclidean"
\* selects the Euclidean metric, and likewise for "cosine".
C9_CaseInsensitivePrefixSelects ==
  MetricChosen =>
    /\ (dist_metric # <<>> /\ IsPrefix(ToLower(dist_metric), EUCLIDEAN)) =>
         metric = "euclidean"
    /\ (dist_metric # <<>> /\ IsPrefix(ToLower(dist_metric), COSINE)) =>
         metric = "cosine"

\* C10: the empty string selects neither metric: after the selection the
\* parent has exited with status 1, no dataset loaded.
C10_EmptyMetricIsError ==
  (MetricChosen /\ dist_metric = <<>>) =>
    (metric = "none" /\ pc = "exited" /\ exit_code = 1)

\* The argument of -d is an initial substring of neither name.
Unmatched(d) == ~IsPrefix(d, EUCLIDEAN) /\ ~IsPrefix(d, COSINE)

NoChild == \A j \in Children : wpc[j] = "none"

NoChannel ==
  \A j \in Children :
    /\ p2c_r[j] \cup p2c_w[j] \cup c2p_r[j] \cup c2p_w[j] = {}
    /\ p_to_c[j] = <<>>
    /\ c_to_p[j] = <<>>

\* C11: with an argument of -d that is an initial substring of neither
\* "euclidean" nor "cosine", load_dataset is never called and no child is
\* ever created, and once the selection has run the parent has exited with
\* status 1.
C11_UnmatchedMetricFailsFirst ==
  Unmatched(dist_metric) =>
    /\ loaded = <<>>
    /\ NoChild
    /\ MetricChosen => (pc = "exited" /\ exit_code = 1)

\* "euclideanx" has ended the parent with status 1, nothing loaded.
C11_Witness ==
  /\ dist_metric = Append(EUCLIDEAN, "x")
  /\ pc = "exited"
  /\ exit_code = 1
  /\ loaded = <<>>

\* C12: with a K that is zero or negative (atoi of a text that is no
\* number is 0), no dataset is ever loaded, no child is ever created, no
\* total is printed and the parent does not exit with status 0.
C12_BadKIsFatal ==
  K <= 0 =>
    /\ loaded = <<>>
    /\ NoChild
    /\ ~TotalEmitted
    /\ exit_code # 0

\* C13: with fewer than two positional arguments load_dataset is never
\* called and the parent does not exit with status 0.
C13_MissingFilesAreFatal ==
  npos < 2 => (loaded = <<>> /\ exit_code # 0)

\* C14: once load_dataset has returned NULL, for the training or the
\* testing file, the parent has exited with status 1, no pipe and no child
\* exist, and no total is printed.
C14_LoadFailureIsFatal ==
  (\E k \in 1 .. Len(loaded) : loaded[k] = "null") =>
    /\ pc = "exited"
    /\ exit_code = 1
    /\ NoChannel
    /\ NoChild
    /\ ~TotalEmitted

\* The training set was loaded, the testing set was not.
C14_Witness == loaded = <<"ok", "null">> /\ pc = "exited"

\* C15: the length written to child j is floor(T / p) + 1 for
\* j < T mod p and floor(T / p) otherwise; no child gets more than
\* ceil(T / p) and two lengths differ by at most 1.
C15_LengthsAreBalanced ==
  /\ \A j \in Procs :
       Dispatched(j) =>
         /\ LenOf(j) = (num_items \div num_procs)
                         + (IF j < num_items % num_procs THEN 1 ELSE 0)
         /\ LenOf(j) * num_procs < num_items + num_procs
  /\ \A j, k \in Procs :
       (Dispatched(j) /\ Dispatched(k)) =>
         (LenOf(j) - LenOf(k) <= 1 /\ LenOf(k) - LenOf(j) <= 1)

\* A test set that does not divide evenly: child 0 got one more image than
\* the last child.
C15_Witness ==
  /\ AllDispatched
  /\ num_items % num_procs > 0
  /\ LenOf(0) = LenOf(num_procs - 1) + 1

\* C16: when the parent is at or past its first read of a result, every
\* partition has been written and every child created; and a child exists
\* only once both ints of its partition have been written, which are in its
\* pipe from its creation until it reads them.
C16_DispatchBeforeCollect ==
  /\ ( \/ pc \in {"read", "close_fd", "wait", "report"}
       \/ eof_seen
       \/ \E j \in Children : got[j] # <<>> ) =>
       (AllDispatched /\ \A j \in Procs : wpc[j] # "none")
  /\ \A j \in Children :
       wpc[j] # "none" =>
         /\ Dispatched(j)
         /\ wpc[j] \in {"close_c2p_r", "read_part"} => p_to_c[j] = sent[j]

\* The parent is at its first read while the second of two children has
\* just been created, its partition in its pipe.
C16_Witness ==
  /\ pc = "read"
  /\ num_procs = 2
  /\ wpc[1] = "close_c2p_r"
  /\ p_to_c[1] = sent[1]

\* The parent has returned 0 after printing the total as its last line, and
\* every child has terminated and been waited for.
Done ==
  /\ pc = "exited"
  /\ exit_code = 0
  /\ out # <<>>
  /\ out[Len(out)] = Line("total", total_correct)
  /\ \A j \in Procs : wpc[j] = "dead" /\ j \in reaped

\* C17: under fair scheduling, a run in which no system call fails and
\* every child exits with status 0 does not get stuck: the parent
\* eventually prints the total and returns 0 with every child terminated
\* and waited for.
C17_CleanRunTerminates == <>(~Clean \/ Done)

\* A clean run of two children has finished.
C17_Witness == Clean /\ Done /\ num_procs = 2

\* C18: every end of the two pipes of child j is open only in the parent
\* or in child j.
C18_ChannelEndsPrivate ==
  \A j \in Children :
    (p2c_r[j] \cup p2c_w[j] \cup c2p_r[j] \cup c2p_w[j]) \subseteq {Parent, j}

\* C19: the parent writes at most two ints to the partition pipe of a
\* child, (start_idx, N), and nothing else is ever in that pipe; once the
\* child exists both are written and no process holds the write end.
C19_OnePartitionMessage ==
  \A j \in Children :
    /\ Len(sent[j]) <= 2
    /\ p_to_c[j] = sent[j] \/ p_to_c[j] = <<>>
    /\ wpc[j] # "none" => (Dispatched(j) /\ p2c_w[j] = {})

\* The second of two children exists and was sent (1, 1).
C19_Witness ==
  /\ num_procs = 2
  /\ wpc[1] # "none"
  /\ sent[1] = <<1, 1>>

\* C20: with a num_procs that is zero or negative the parent ends only by
\* an exit with status 1, creates no child and prints no total.
C20_BadNumProcsIsFatal ==
  num_procs <= 0 =>
    /\ exit_code \in {-1, 1}
    /\ NoChild
    /\ ~TotalEmitted

=============================================================================
